---------------------------- MODULE Spec2Model ----------------------------
(* A model of the COLLADA add-on's own logic (src/__init__.py): the import  *)
(* and export operators, the export path-extension check, the pycollada     *)
(* installer with its install-directory resolution, and register() /        *)
(* unregister().  Paths handled by str.endswith / os.path.splitext are      *)
(* sequences of one-character strings; directories of the installer are     *)
(* names whose text is a sequence of path tokens.                           *)
EXTENDS Integers, Sequences, FiniteSets, TLC

VARIABLES
    os_name,          \* "posix" or "nt": which os.path implementation is in use
    HAS_COLLADA,      \* the module-level dependency flag (lines 73-79)
    importable,       \* whether "import collada" succeeds right now
    filepath,         \* EXPORT_OT_collada.filepath
    export_as,        \* EXPORT_OT_collada.export_as
    export_textures,  \* EXPORT_OT_collada.export_textures
    user_modules,     \* kind of <USER resource path>/scripts/modules on disk
    script_paths,     \* bpy.utils.script_paths("modules")
    sys_path,         \* sys.path
    last,             \* record of the last operator call: inputs, reports, result
    registered,       \* classes registered with the host, in registration order
    menu_import,      \* draw functions of TOPBAR_MT_file_import
    menu_export,      \* draw functions of TOPBAR_MT_file_export
    pc,               \* position inside register() / unregister()
    snap              \* host state when the running register() started

vars == <<os_name, HAS_COLLADA, importable, filepath, export_as, export_textures,
          user_modules, script_paths, sys_path, last, registered, menu_import,
          menu_export, pc, snap>>

exportVars == <<filepath, export_as, export_textures>>
installVars == <<importable, user_modules, script_paths, sys_path>>
hostVars == <<registered, menu_import, menu_export, pc, snap>>

-----------------------------------------------------------------------------
(* Bounds of the model.                                                     *)

\* longest path stem drawn for the export operator's initial filepath
MaxStem == 3
\* most entries of bpy.utils.script_paths("modules") for the installer alone
MaxScriptPaths == 2
\* most entries of bpy.utils.script_paths("modules") in a session of all operators
MaxSessionScriptPaths == 1
\* most draw functions of other add-ons in one file menu
MaxOther == 2

-----------------------------------------------------------------------------
(* Strings.                                                                 *)

Chars == {".", "/", "\\", "d", "a", "e", "z"}

ExtDae == <<".", "d", "a", "e">>
ExtZae == <<".", "z", "a", "e">>

\* str.endswith
EndsWith(s, suf) ==
    /\ Len(s) >= Len(suf)
    /\ SubSeq(s, Len(s) - Len(suf) + 1, Len(s)) = suf

\* str.rfind over a set of one-character separators; 0 when none occurs
RFind(s, cs) ==
    LET hits == {i \in 1..Len(s) : s[i] \in cs}
    IN  IF hits = {} THEN 0 ELSE CHOOSE i \in hits : \A j \in hits : j <= i

\* os.sep and os.altsep of the running platform
Seps == IF os_name = "nt" THEN {"\\", "/"} ELSE {"/"}

\* a splitext that cuts at the first dot of the path instead of the last
SplitExtFirstDot(p) ==
    LET dots == {i \in 1..Len(p) : p[i] = "."}
        dotIndex == IF dots = {} THEN 0
                    ELSE CHOOSE i \in dots : \A j \in dots : i <= j
    IN  IF dotIndex > 1
        THEN <<SubSeq(p, 1, dotIndex - 1), SubSeq(p, dotIndex, Len(p))>>
        ELSE <<p, <<>> >>

\* os.path.splitext (genericpath._splitext): the extension starts at the last
\* dot that follows the last separator, leading dots of the name not counted
SplitExt(p) ==
    LET sepIndex == RFind(p, Seps)
        dotIndex == RFind(p, {"."})
    IN  IF /\ dotIndex > sepIndex
           /\ \E k \in (sepIndex + 1)..(dotIndex - 1) : p[k] # "."
        THEN <<SubSeq(p, 1, dotIndex - 1), SubSeq(p, dotIndex, Len(p))>>
        ELSE <<p, <<>> >>

\* all strings over cs of length at most n
RECURSIVE StringsUpTo(_, _)
StringsUpTo(cs, n) ==
    IF n = 0 THEN {<<>>}
    ELSE LET shorter == StringsUpTo(cs, n - 1)
         IN  shorter \cup {Append(s, c) : s \in shorter, c \in cs}

-----------------------------------------------------------------------------
(* The record of an operator call.                                          *)

NoCall == [op |-> "none", ret |-> "NONE", changed |-> FALSE,
           reports |-> <<>>, calls |-> <<>>, pre |-> <<>>, inp |-> <<>>,
           prev |-> [op |-> "none", changed |-> FALSE]]

\* the record of a call of operator o
Call(o) == [NoCall EXCEPT !.op = o]

Report(level, msg, code) == [level |-> level, msg |-> msg, code |-> code]

-----------------------------------------------------------------------------
(* EXPORT_OT_collada: the property fields and check().                      *)

ExportAsItems == {"dae", "zae"}

\* a check() that appends the enum value itself, without the dot
CheckNoDot(fp, as) ==
    LET out_ext == IF as = "zae" THEN ExtZae ELSE ExtDae
    IN  IF ~EndsWith(fp, out_ext)
        THEN [filepath |-> SplitExt(fp)[1] \o Tail(out_ext), changed |-> TRUE]
        ELSE [filepath |-> fp, changed |-> FALSE]

\* the filepath and return value of check() (lines 200-206)
CheckFilepath(fp, as) ==
    LET out_ext == IF as = "zae" THEN ExtZae ELSE ExtDae
    IN  IF ~EndsWith(fp, out_ext)
        THEN [filepath |-> SplitExt(fp)[1] \o out_ext, changed |-> TRUE]
        ELSE [filepath |-> fp, changed |-> FALSE]

\* EXPORT_OT_collada.check
EXPORT_OT_collada_check ==
    LET r == CheckFilepath(filepath, export_as)
    IN  /\ filepath' = r.filepath
        /\ export_textures' = IF r.changed THEN export_as = "zae"
                                           ELSE export_textures
        /\ last' = [Call("check") EXCEPT !.changed = r.changed,
                        !.prev = [op |-> last.op, changed |-> last.changed],
                        !.pre = [filepath |-> filepath,
                                 export_textures |-> export_textures,
                                 export_as |-> export_as]]
        /\ UNCHANGED <<os_name, HAS_COLLADA, export_as, installVars, hostVars>>

\* the file selector writes the "Export as" enum
SetExportAs ==
    \E v \in ExportAsItems :
        /\ v # export_as
        /\ export_as' = v
        /\ last' = Call("set")
        /\ UNCHANGED <<os_name, HAS_COLLADA, filepath, export_textures,
                       installVars, hostVars>>

\* the file selector writes the "Export Textures" checkbox
SetExportTextures ==
    /\ export_textures' = ~export_textures
    /\ last' = Call("set")
    /\ UNCHANGED <<os_name, HAS_COLLADA, filepath, export_as,
                   installVars, hostVars>>

\* the initial paths of the export dialog: every stem, bare or already suffixed
ExportPaths ==
    {s \o e : s \in StringsUpTo(Chars, MaxStem), e \in {<<>>, ExtDae, ExtZae}}

InitIdleRest ==
    /\ HAS_COLLADA = TRUE
    /\ importable = TRUE
    /\ user_modules = "dir"
    /\ script_paths = <<>>
    /\ sys_path = <<>>
    /\ registered = <<>>
    /\ menu_import = <<>>
    /\ menu_export = <<>>
    /\ pc = [at |-> "unregistered", i |-> 0]
    /\ snap = [valid |-> FALSE, registered |-> <<>>,
               menu_import |-> <<>>, menu_export |-> <<>>]

InitExport ==
    /\ os_name \in {"posix", "nt"}
    /\ filepath \in ExportPaths
    /\ export_as \in ExportAsItems
    /\ export_textures \in BOOLEAN
    /\ last = NoCall
    /\ InitIdleRest

NextExport ==
    \/ EXPORT_OT_collada_check
    \/ SetExportAs
    \/ SetExportTextures

SpecExport == InitExport /\ [][NextExport]_vars

-----------------------------------------------------------------------------
(* The file system and the external loader / saver.                         *)

\* what a path names on disk: nothing, a regular file, or something that
\* exists and is not a regular file
Kinds == {"absent", "file", "dir"}

\* os.path.isfile and os.path.exists
IsFile(kind) == kind = "file"
Exists(kind) == kind # "absent"

\* the operator results import_collada.load / export_collada.save may return
LoaderResults == {"FINISHED", "CANCELLED"}

\* paths the file selector hands to execute()
SamplePaths == {<<"a">>, <<"a">> \o ExtDae, <<"a">> \o ExtZae}

MissingDependency == <<Report("ERROR", "pycollada not installed", 0)>>

-----------------------------------------------------------------------------
(* IMPORT_OT_collada.execute and EXPORT_OT_collada.execute.                 *)

\* an import that tests the path before the dependency flag
ImportPathFirst(has, fp, kind, r) ==
    IF ~IsFile(kind)
    THEN [ret |-> "CANCELLED", calls |-> <<>>,
          reports |-> <<Report("ERROR", "import failed, not a file", 0)>>]
    ELSE IF ~has
    THEN [ret |-> "CANCELLED", reports |-> MissingDependency, calls |-> <<>>]
    ELSE [ret |-> r, reports |-> <<>>,
          calls |-> <<[fn |-> "import_collada.load", filepath |-> fp,
                       is_zae |-> EndsWith(fp, ExtZae)]>>]

\* an import that, like export, lets a path that does not exist through
ImportLikeExport(has, fp, kind, r) ==
    IF ~has
    THEN [ret |-> "CANCELLED", reports |-> MissingDependency, calls |-> <<>>]
    ELSE IF Exists(kind) /\ ~IsFile(kind)
    THEN [ret |-> "CANCELLED", calls |-> <<>>,
          reports |-> <<Report("ERROR", "import failed, not a file", 0)>>]
    ELSE [ret |-> r, reports |-> <<>>,
          calls |-> <<[fn |-> "import_collada.load", filepath |-> fp,
                       is_zae |-> EndsWith(fp, ExtZae)]>>]

\* the outcome of IMPORT_OT_collada.execute (lines 117-132) with the flag
\* has, on a path fp of the given kind, when load() would return r
ImportOutcome(has, fp, kind, r) ==
    IF ~has
    THEN [ret |-> "CANCELLED", reports |-> MissingDependency, calls |-> <<>>]
    ELSE IF ~IsFile(kind)
    THEN [ret |-> "CANCELLED", calls |-> <<>>,
          reports |-> <<Report("ERROR", "import failed, not a file", 0)>>]
    ELSE [ret |-> r, reports |-> <<>>,
          calls |-> <<[fn |-> "import_collada.load", filepath |-> fp,
                       is_zae |-> EndsWith(fp, ExtZae)]>>]

\* the outcome of EXPORT_OT_collada.execute (lines 209-222)
ExportOutcome(has, fp, kind, r) ==
    IF ~has
    THEN [ret |-> "CANCELLED", reports |-> MissingDependency, calls |-> <<>>]
    ELSE IF Exists(kind) /\ ~IsFile(kind)
    THEN [ret |-> "CANCELLED", calls |-> <<>>,
          reports |-> <<Report("ERROR", "export failed, not a file", 0)>>]
    ELSE [ret |-> r, reports |-> <<>>,
          calls |-> <<[fn |-> "export_collada.save", filepath |-> fp]>>]

\* IMPORT_OT_collada.execute
IMPORT_OT_collada_execute ==
    \E fp \in SamplePaths, kind \in Kinds, r \in LoaderResults :
        LET o == ImportOutcome(HAS_COLLADA, fp, kind, r)
        IN  /\ last' = [Call("import") EXCEPT !.ret = o.ret,
                            !.reports = o.reports, !.calls = o.calls,
                            !.inp = [filepath |-> fp, kind |-> kind,
                                     loader |-> r]]
            /\ UNCHANGED <<os_name, HAS_COLLADA, exportVars, installVars,
                           hostVars>>

\* EXPORT_OT_collada.execute
EXPORT_OT_collada_execute ==
    \E kind \in Kinds, r \in LoaderResults :
        LET o == ExportOutcome(HAS_COLLADA, filepath, kind, r)
        IN  /\ last' = [Call("export") EXCEPT !.ret = o.ret,
                            !.reports = o.reports, !.calls = o.calls,
                            !.inp = [filepath |-> filepath, kind |-> kind,
                                     loader |-> r]]
            /\ UNCHANGED <<os_name, HAS_COLLADA, exportVars, installVars,
                           hostVars>>

-----------------------------------------------------------------------------
(* Directories of the installer.                                            *)

\* os.path.join(bpy.utils.resource_path("USER"), "scripts", "modules")
UserModules == "USER/scripts/modules"
\* the same directory under another spelling, as sys.path may hold it
UserModulesAlt == "USER/scripts/modules/"
\* the module-load fallback directory under the home directory (lines 49-58)
HomeFallback == "~/AppData/Roaming/Blender Foundation/Blender/5.0/scripts/modules"

\* directories bpy.utils.script_paths("modules") may list; it lists only
\* directories that exist
ScriptDirs == {"system", "roaming", "library", "xdg", "roaming_fwd"}

\* the text of a listed directory, cut into path tokens
PathText(d) ==
    CASE d = "system" ->
            <<"/usr/share/blender", "/", "scripts", "/", "modules">>
      [] d = "roaming" ->
            <<"C:\\Users\\u", "\\", "AppData", "\\", "Roaming", "\\",
              "Blender", "\\", "scripts", "\\", "modules">>
      [] d = "library" ->
            <<"/Users/u", "/", "Library", "/", "Application Support", "/",
              "Blender", "/", "scripts", "/", "modules">>
      [] d = "xdg" ->
            <<"/home/u", "/", ".config", "/", "blender", "/", "scripts", "/",
              "modules">>
      [] d = "roaming_fwd" ->
            <<"C:/Users/u", "/", "AppData", "/", "Roaming", "/",
              "Blender", "/", "scripts", "/", "modules">>

\* the user-location markers of lines 244-246
Markers == {<<"AppData", "\\", "Roaming">>,
            <<"Library", "/", "Application Support">>,
            <<".config">>}

\* the "in" operator of str, on token sequences
Contains(text, m) ==
    \E i \in 1..(Len(text) - Len(m) + 1) : SubSeq(text, i, i + Len(m) - 1) = m

HasUserMarker(d) == \E m \in Markers : Contains(PathText(d), m)

Range(q) == {q[i] : i \in 1..Len(q)}

\* whether directory d exists, given the kind of the user modules path
DirExists(d, um) == IF d \in {UserModules, UserModulesAlt} THEN um = "dir" ELSE TRUE

\* site.makepath: the absolute, case-normalised spelling of a directory
Norm(d) == IF d = UserModulesAlt THEN UserModules ELSE d

\* site.addsitedir: appends the directory unless an existing entry of
\* sys.path already names it
AddSiteDir(sp, d, um) ==
    LET known == {Norm(sp[i]) : i \in {j \in 1..Len(sp) : DirExists(sp[j], um)}}
    IN  IF Norm(d) \in known THEN sp ELSE Append(sp, Norm(d))

\* sys.path after the module-level code of lines 44-66
LoadSysPath(base, sps) ==
    LET modules_path == IF sps # <<>> THEN sps[1] ELSE HomeFallback
        sp == IF modules_path \notin Range(base)
              THEN Append(base, modules_path) ELSE base
    IN  AddSiteDir(sp, modules_path, "dir")

-----------------------------------------------------------------------------
(* BCry_OT_install_pycollada.                                               *)

\* a resolution that takes the first marked entry of script_paths
ResolveFirstMarked(um, sps) ==
    IF um # "absent" THEN UserModules
    ELSE LET marked == {i \in 1..Len(sps) : HasUserMarker(sps[i])}
         IN  IF marked = {} THEN UserModules
             ELSE sps[CHOOSE i \in marked : \A j \in marked : i <= j]

\* the path get_user_modules_path hands to os.makedirs (lines 235-249)
get_user_modules_path(um, sps) ==
    IF um # "absent" THEN UserModules
    ELSE LET marked == {i \in 1..Len(sps) : HasUserMarker(sps[i])}
         IN  IF marked = {} THEN UserModules
             ELSE sps[CHOOSE i \in marked : \A j \in marked : j <= i]

\* os.makedirs(path, exist_ok=True) (line 251): succeeds on a directory,
\* raises on a path that exists and is no directory, and may fail to create
\* a missing one
MakedirsOutcomes(d, um) ==
    IF d = UserModules
    THEN CASE um = "dir" -> {"ok"}
           [] um = "file" -> {"FileExistsError"}
           [] um = "absent" -> {"ok", "OSError"}
    ELSE {"ok"}

\* subprocess.run(cmd, check=False): raises when the executable cannot be
\* started, else returns the exit code
RetCodes == {0, 1, 2}
RunOutcomes == {[raised |-> TRUE, returncode |-> 0]}
               \cup {[raised |-> FALSE, returncode |-> c] : c \in RetCodes}

\* "import collada" after an install: succeeds, raises ImportError, or raises
\* another exception from the module's own code
ImportOutcomes(imp) == IF imp THEN {"ok"} ELSE {"ok", "ImportError", "Exception"}

ExceptionReport == <<Report("ERROR", "Exception during install", 0)>>

\* an installer that runs the subprocess with check=True
InstallCheckTrue(modules_path, run, imp, sp, um) ==
    IF run.raised \/ run.returncode # 0
    THEN [reports |-> ExceptionReport, sys_path |-> sp, imported |-> FALSE]
    ELSE LET sp1 == IF modules_path \notin Range(sp)
                    THEN Append(sp, modules_path) ELSE sp
             sp2 == AddSiteDir(sp1, modules_path, um)
         IN  CASE imp = "ok" ->
                    [reports |-> <<Report("INFO", "installed successfully", 0)>>,
                     sys_path |-> sp2, imported |-> TRUE]
               [] imp = "ImportError" ->
                    [reports |-> <<Report("WARNING", "module not importable", 0)>>,
                     sys_path |-> sp2, imported |-> FALSE]
               [] OTHER ->
                    [reports |-> ExceptionReport, sys_path |-> sp2,
                     imported |-> FALSE]

\* an installer that appends to sys.path without looking
InstallAppendAlways(modules_path, run, imp, sp, um) ==
    IF run.raised
    THEN [reports |-> ExceptionReport, sys_path |-> sp, imported |-> FALSE]
    ELSE IF run.returncode = 0
    THEN LET sp2 == AddSiteDir(Append(sp, modules_path), modules_path, um)
         IN  CASE imp = "ok" ->
                    [reports |-> <<Report("INFO", "installed successfully", 0)>>,
                     sys_path |-> sp2, imported |-> TRUE]
               [] imp = "ImportError" ->
                    [reports |-> <<Report("WARNING", "module not importable", 0)>>,
                     sys_path |-> sp2, imported |-> FALSE]
               [] OTHER ->
                    [reports |-> ExceptionReport, sys_path |-> sp2,
                     imported |-> FALSE]
    ELSE [reports |-> <<Report("ERROR", "Install failed", run.returncode)>>,
          sys_path |-> sp, imported |-> FALSE]

\* the try block of execute (lines 258-312): the reports, sys.path and
\* whether collada got imported, for the outcome run of subprocess.run and
\* the outcome imp of "import collada"
InstallOutcome(modules_path, run, imp, sp, um) ==
    IF run.raised
    THEN [reports |-> ExceptionReport, sys_path |-> sp, imported |-> FALSE]
    ELSE IF run.returncode = 0
    THEN LET sp1 == IF modules_path \notin Range(sp)
                    THEN Append(sp, modules_path) ELSE sp
             sp2 == AddSiteDir(sp1, modules_path, um)
         IN  CASE imp = "ok" ->
                    [reports |-> <<Report("INFO", "installed successfully", 0)>>,
                     sys_path |-> sp2, imported |-> TRUE]
               [] imp = "ImportError" ->
                    [reports |-> <<Report("WARNING", "module not importable", 0)>>,
                     sys_path |-> sp2, imported |-> FALSE]
               [] OTHER ->
                    [reports |-> ExceptionReport, sys_path |-> sp2,
                     imported |-> FALSE]
    ELSE [reports |-> <<Report("ERROR", "Install failed", run.returncode)>>,
          sys_path |-> sp, imported |-> FALSE]

\* an installer that sets the flag once its own import succeeds
FlagSetOnImport(has, imported) == has \/ imported

\* the dependency flag after execute: the "import collada" of line 286 binds
\* a local name and HAS_COLLADA is assigned nowhere in the method
FlagAfterInstall(has, imported) == has

\* BCry_OT_install_pycollada.execute, get_user_modules_path included
BCry_OT_install_pycollada_execute ==
    LET modules_path == get_user_modules_path(user_modules, script_paths)
    IN  \E mk \in MakedirsOutcomes(modules_path, user_modules) :
            IF mk # "ok"
            THEN \* os.makedirs raised: the exception leaves execute
                 /\ last' = [Call("install") EXCEPT !.ret = "EXCEPTION",
                                 !.pre = [sys_path |-> sys_path,
                                          user_modules |-> user_modules],
                                 !.inp = [makedirs |-> mk,
                                          target |-> modules_path]]
                 /\ UNCHANGED <<os_name, HAS_COLLADA, exportVars, installVars,
                                hostVars>>
            ELSE \E run \in RunOutcomes :
                 \E imp \in IF ~run.raised /\ run.returncode = 0
                            THEN ImportOutcomes(importable)
                            ELSE {"not attempted"} :
                    LET um == IF modules_path = UserModules
                              THEN "dir" ELSE user_modules
                        o == InstallOutcome(modules_path, run, imp, sys_path, um)
                    IN  /\ user_modules' = um
                        /\ sys_path' = o.sys_path
                        /\ importable' = (importable \/ o.imported)
                        /\ HAS_COLLADA' = FlagAfterInstall(HAS_COLLADA, o.imported)
                        /\ last' = [Call("install") EXCEPT !.ret = "FINISHED",
                                        !.reports = o.reports,
                                        !.pre = [sys_path |-> sys_path,
                                                 user_modules |-> user_modules],
                                        !.inp = [makedirs |-> mk,
                                                 target |-> modules_path,
                                                 modules_path |-> modules_path,
                                                 run |-> run, imp |-> imp]]
                        /\ UNCHANGED <<os_name, exportVars, script_paths,
                                       hostVars>>

-----------------------------------------------------------------------------
(* The operators of one session.                                            *)

\* sequences without repetition over S, of length at most n
RECURSIVE ListsUpTo(_, _)
ListsUpTo(S, n) ==
    IF n = 0 THEN {<<>>}
    ELSE LET shorter == ListsUpTo(S, n - 1)
         IN  shorter \cup {Append(q, d) : q \in shorter, d \in S}

SysPathBases == {<<"stdlib">>, <<"stdlib", UserModules>>,
                 <<"stdlib", UserModulesAlt>>}

\* the lists bpy.utils.script_paths("modules") may return, n entries at most
ScriptPathLists(n) ==
    {q \in ListsUpTo(ScriptDirs, n) : Cardinality(Range(q)) = Len(q)}

\* the state once the add-on module is loaded, with at most n script paths:
\* the flag is the result of the module-level "import collada", the export
\* fields have their defaults
InitLoaded(n) ==
    /\ os_name \in {"posix", "nt"}
    /\ importable \in BOOLEAN
    /\ HAS_COLLADA = importable
    /\ filepath \in SamplePaths
    /\ export_as = "dae"
    /\ export_textures = FALSE
    /\ user_modules \in Kinds
    /\ script_paths \in ScriptPathLists(n)
    /\ \E base \in SysPathBases : sys_path = LoadSysPath(base, script_paths)
    /\ last = NoCall
    /\ registered = <<>>
    /\ menu_import = <<>>
    /\ menu_export = <<>>
    /\ pc = [at |-> "unregistered", i |-> 0]
    /\ snap = [valid |-> FALSE, registered |-> <<>>,
               menu_import |-> <<>>, menu_export |-> <<>>]

\* a session of the operators
Init == InitLoaded(MaxSessionScriptPaths)

Next ==
    \/ IMPORT_OT_collada_execute
    \/ EXPORT_OT_collada_execute
    \/ EXPORT_OT_collada_check
    \/ BCry_OT_install_pycollada_execute

Spec == Init /\ [][Next]_vars

\* the installer alone, under every list of script paths
InitInstall ==
    /\ InitLoaded(MaxScriptPaths)
    /\ os_name = "nt"
    /\ filepath = <<"a">>

NextInstall == BCry_OT_install_pycollada_execute

SpecInstall == InitInstall /\ [][NextInstall]_vars

-----------------------------------------------------------------------------
(* register() and unregister().                                            *)

\* the classes tuple (lines 356-361)
classes == <<"IMPORT_OT_collada", "EXPORT_OT_collada",
             "BCry_OT_install_pycollada", "BCryAddonPreferences">>

\* draw functions other add-ons put into the file menus
OtherHooks == {"other_menu_a", "other_menu_b"}

Reversed(q) == [i \in 1..Len(q) |-> q[Len(q) + 1 - i]]

\* list.remove: drops the first occurrence of x, if there is one
RemoveFirst(q, x) ==
    IF x \notin Range(q) THEN q
    ELSE LET k == CHOOSE i \in 1..Len(q) :
                    q[i] = x /\ \A j \in 1..(i - 1) : q[j] # x
         IN  SubSeq(q, 1, k - 1) \o SubSeq(q, k + 1, Len(q))

ClassStep(kind, q) == [i \in 1..Len(q) |-> [do |-> kind, arg |-> q[i]]]

\* the statements of register() in order (lines 391-394)
RegisterProgram ==
    ClassStep("register_class", classes)
    \o <<[do |-> "append_import", arg |-> "menu_func_import"],
         [do |-> "append_export", arg |-> "menu_func_export"]>>

\* an unregister() that unregisters the classes before it removes the hooks
UnregisterClassesFirst ==
    ClassStep("unregister_class", Reversed(classes))
    \o <<[do |-> "remove_import", arg |-> "menu_func_import"],
         [do |-> "remove_export", arg |-> "menu_func_export"]>>

\* the statements of unregister() in order (lines 398-401)
UnregisterProgram ==
    <<[do |-> "remove_import", arg |-> "menu_func_import"],
      [do |-> "remove_export", arg |-> "menu_func_export"]>>
    \o ClassStep("unregister_class", Reversed(classes))

\* the effect of one statement on the host
Execute(st) ==
    /\ registered' =
         CASE st.do = "register_class" -> Append(registered, st.arg)
           [] st.do = "unregister_class" -> RemoveFirst(registered, st.arg)
           [] OTHER -> registered
    /\ menu_import' =
         CASE st.do = "append_import" -> Append(menu_import, st.arg)
           [] st.do = "remove_import" -> RemoveFirst(menu_import, st.arg)
           [] OTHER -> menu_import
    /\ menu_export' =
         CASE st.do = "append_export" -> Append(menu_export, st.arg)
           [] st.do = "remove_export" -> RemoveFirst(menu_export, st.arg)
           [] OTHER -> menu_export

Idle(at) == [at |-> at, i |-> 0]

\* the host calls register(): the add-on is not registered
register ==
    /\ pc = Idle("unregistered")
    /\ pc' = [at |-> "register", i |-> 1]
    /\ snap' = [valid |-> TRUE, registered |-> registered,
                menu_import |-> menu_import, menu_export |-> menu_export]
    /\ UNCHANGED <<os_name, HAS_COLLADA, exportVars, installVars, last,
                   registered, menu_import, menu_export>>

\* one statement of the running register()
register_step ==
    /\ pc.at = "register"
    /\ Execute(RegisterProgram[pc.i])
    /\ pc' = IF pc.i = Len(RegisterProgram) THEN Idle("registered")
             ELSE [pc EXCEPT !.i = pc.i + 1]
    /\ UNCHANGED <<os_name, HAS_COLLADA, exportVars, installVars, last, snap>>

\* the host calls unregister(): the add-on is registered
unregister ==
    /\ pc = Idle("registered")
    /\ pc' = [at |-> "unregister", i |-> 1]
    /\ UNCHANGED <<os_name, HAS_COLLADA, exportVars, installVars, last,
                   registered, menu_import, menu_export, snap>>

\* one statement of the running unregister()
unregister_step ==
    /\ pc.at = "unregister"
    /\ Execute(UnregisterProgram[pc.i])
    /\ pc' = IF pc.i = Len(UnregisterProgram) THEN Idle("unregistered")
             ELSE [pc EXCEPT !.i = pc.i + 1]
    /\ UNCHANGED <<os_name, HAS_COLLADA, exportVars, installVars, last, snap>>

OthersIn(menu) == Cardinality({i \in 1..Len(menu) : menu[i] \in OtherHooks})

\* between two calls, another add-on appends a draw function to a file menu
OtherAppend ==
    /\ pc.i = 0
    /\ \E h \in OtherHooks :
        \/ /\ OthersIn(menu_import) < MaxOther
           /\ menu_import' = Append(menu_import, h)
           /\ UNCHANGED menu_export
        \/ /\ OthersIn(menu_export) < MaxOther
           /\ menu_export' = Append(menu_export, h)
           /\ UNCHANGED menu_import
    /\ snap' = [snap EXCEPT !.valid = FALSE]
    /\ UNCHANGED <<os_name, HAS_COLLADA, exportVars, installVars, last,
                   registered, pc>>

\* between two calls, another add-on removes its draw function again
OtherRemove ==
    /\ pc.i = 0
    /\ \E h \in OtherHooks :
        \/ /\ h \in Range(menu_import)
           /\ menu_import' = RemoveFirst(menu_import, h)
           /\ UNCHANGED menu_export
        \/ /\ h \in Range(menu_export)
           /\ menu_export' = RemoveFirst(menu_export, h)
           /\ UNCHANGED menu_import
    /\ snap' = [snap EXCEPT !.valid = FALSE]
    /\ UNCHANGED <<os_name, HAS_COLLADA, exportVars, installVars, last,
                   registered, pc>>

InitRegister ==
    /\ os_name = "nt"
    /\ importable \in BOOLEAN
    /\ HAS_COLLADA = importable
    /\ filepath = <<"a">>
    /\ export_as = "dae"
    /\ export_textures = FALSE
    /\ user_modules = "dir"
    /\ script_paths = <<>>
    /\ sys_path = LoadSysPath(<<"stdlib">>, script_paths)
    /\ last = NoCall
    /\ registered = <<>>
    /\ menu_import = <<>>
    /\ menu_export = <<>>
    /\ pc = Idle("unregistered")
    /\ snap = [valid |-> FALSE, registered |-> <<>>,
               menu_import |-> <<>>, menu_export |-> <<>>]

NextRegister ==
    \/ register
    \/ register_step
    \/ unregister
    \/ unregister_step
    \/ OtherAppend
    \/ OtherRemove

SpecRegister == InitRegister /\ [][NextRegister]_vars

-----------------------------------------------------------------------------
(* Properties of EXPORT_OT_collada.check.                                   *)

OutExt(as) == IF as = "zae" THEN ExtZae ELSE ExtDae

\* the name of p has an extension: a dot after a character of the name that
\* is not itself a dot
HasExt(p) ==
    LET nameStart == RFind(p, Seps) + 1
    IN  \E i \in (nameStart + 1)..Len(p) :
            /\ p[i] = "."
            /\ \E k \in nameStart..(i - 1) : p[k] # "."

\* q is p with its last extension (a dot and dot-free, separator-free
\* characters up to the end) replaced by ext, or with ext appended when the
\* name of p has no extension
ReplacesLastExt(p, q, ext) ==
    IF HasExt(p)
    THEN \E n \in 1..(Len(p) - 1) :
            /\ p[n + 1] = "."
            /\ \A i \in (n + 2)..Len(p) : p[i] \notin ({"."} \cup Seps)
            /\ q = SubSeq(p, 1, n) \o ext
    ELSE q = p \o ext

\* C2: check is idempotent: a check() that directly follows a check() with
\* the same export_as returns False and leaves filepath and export_textures
\* as they were, and a check() on a path that already ends with the selected
\* extension changes no field of the operator.
C2_CheckIdempotent ==
    last.op = "check" =>
        /\ last.prev.op = "check" =>
                /\ ~last.changed
                /\ filepath = last.pre.filepath
                /\ export_textures = last.pre.export_textures
        /\ EndsWith(last.pre.filepath, OutExt(last.pre.export_as)) =>
                /\ ~last.changed
                /\ filepath = last.pre.filepath
                /\ export_textures = last.pre.export_textures
                /\ export_as = last.pre.export_as

\* a second check() right after a check() that had rewritten the path
C2_Witness ==
    /\ last.op = "check"
    /\ last.prev.op = "check"
    /\ last.prev.changed
    /\ ~last.changed

\* C6: after check(), filepath ends with ".zae" if export_as is "zae" and
\* with ".dae" otherwise, and is the prior path with only its last extension
\* replaced; check() returns True exactly when it modified filepath, and
\* exactly then sets export_textures to (export_as = "zae").
C6_CheckPostcondition ==
    last.op = "check" =>
        /\ export_as = last.pre.export_as
        /\ EndsWith(filepath, OutExt(export_as))
        /\ last.changed <=> (filepath # last.pre.filepath)
        /\ last.changed =>
                /\ export_textures = (export_as = "zae")
                /\ ReplacesLastExt(last.pre.filepath, filepath, OutExt(export_as))
        /\ ~last.changed => export_textures = last.pre.export_textures

\* a check() that replaced the last of two extensions and switched
\* export_textures on
C6_Witness ==
    /\ last.op = "check"
    /\ last.changed
    /\ export_as = "zae"
    /\ ~last.pre.export_textures
    /\ export_textures
    /\ last.pre.filepath = <<"a", ".", "d", ".", "d", "a", "e">>
    /\ filepath = <<"a", ".", "d", ".", "z", "a", "e">>

-----------------------------------------------------------------------------
(* Properties of the import and export operators.                           *)

Refused(c) ==
    /\ c.ret = "CANCELLED"
    /\ c.calls = <<>>
    /\ Len(c.reports) = 1
    /\ c.reports[1].level = "ERROR"

\* C1: with HAS_COLLADA false, import and export execute report the missing
\* dependency at ERROR level and return CANCELLED without calling load or
\* save, whatever the path names on disk: the flag is tested before the path.
C1_RefuseWithoutDependency ==
    (last.op \in {"import", "export"} /\ ~HAS_COLLADA) =>
        /\ Refused(last)
        /\ last.reports = MissingDependency

\* an import without the dependency, on a path that is no file
C1_Witness ==
    /\ last.op = "import"
    /\ ~HAS_COLLADA
    /\ last.inp.kind = "dir"
    /\ last.reports = MissingDependency
    /\ last.ret = "CANCELLED"

\* C5: with the flag set, neither operator delegates for a path that exists
\* and is no regular file; import also refuses a path that does not exist,
\* export delegates for it; whenever an operator delegates, it does so once
\* and its result is the value the loader or saver returned.
C5_PathCheckedBeforeDelegating ==
    (last.op \in {"import", "export"} /\ HAS_COLLADA) =>
        LET refused == \/ last.inp.kind = "dir"
                       \/ last.op = "import" /\ last.inp.kind = "absent"
        IN  IF refused
            THEN /\ Refused(last)
                 /\ last.reports # MissingDependency
            ELSE /\ last.reports = <<>>
                 /\ Len(last.calls) = 1
                 /\ last.calls[1].fn = (IF last.op = "import"
                                        THEN "import_collada.load"
                                        ELSE "export_collada.save")
                 /\ last.calls[1].filepath = last.inp.filepath
                 /\ last.ret = last.inp.loader

\* an export to a path that does not exist yet, whose saver returned CANCELLED
C5_Witness ==
    /\ last.op = "export"
    /\ HAS_COLLADA
    /\ last.inp.kind = "absent"
    /\ Len(last.calls) = 1
    /\ last.inp.loader = "CANCELLED"
    /\ last.ret = "CANCELLED"

\* C8: no operator changes HAS_COLLADA; if the flag was unset at load, then
\* even after an install that made collada importable, import and export
\* still return CANCELLED with the missing-dependency error.
C8_FlagNeverChanges ==
    [][/\ HAS_COLLADA' = HAS_COLLADA
       /\ (~HAS_COLLADA /\ importable /\ last'.op \in {"import", "export"}) =>
            /\ Refused(last')
            /\ last'.reports = MissingDependency]_vars

\* an import of a regular file refused after a successful install
C8_Witness ==
    /\ ~HAS_COLLADA
    /\ importable
    /\ last.op = "import"
    /\ last.inp.kind = "file"
    /\ last.ret = "CANCELLED"

-----------------------------------------------------------------------------
(* Properties of the installer.                                             *)

\* execute got past get_user_modules_path and returned
Installed == last.op = "install" /\ last.inp.makedirs = "ok"

Levels(c) == {c.reports[i].level : i \in 1..Len(c.reports)}
Msgs(c) == {c.reports[i].msg : i \in 1..Len(c.reports)}
ErrorCount(c) == Cardinality({i \in 1..Len(c.reports) : c.reports[i].level = "ERROR"})

\* C3: a subprocess that returned a non-zero exit code N yields the report
\* "Install failed (code N)", one that could not be started yields the report
\* "Exception during install"; the two causes never yield the same report.
C3_FailuresReportedDistinctly ==
    Installed =>
        /\ (~last.inp.run.raised /\ last.inp.run.returncode # 0) =>
                /\ last.reports =
                     <<Report("ERROR", "Install failed", last.inp.run.returncode)>>
                /\ "Exception during install" \notin Msgs(last)
        /\ last.inp.run.raised =>
                /\ last.reports = ExceptionReport
                /\ "Install failed" \notin Msgs(last)

\* an install whose subprocess exited with code 2
C3_Witness ==
    /\ Installed
    /\ ~last.inp.run.raised
    /\ last.inp.run.returncode = 2
    /\ last.reports = <<Report("ERROR", "Install failed", 2)>>

\* C4: an install whose subprocess does not exit zero issues exactly one
\* ERROR report; one whose subprocess exits zero issues no ERROR report: INFO
\* if the module imports, WARNING if it does not.
C4_ErrorIffNotExitZero ==
    Installed =>
        IF last.inp.run.raised \/ last.inp.run.returncode # 0
        THEN ErrorCount(last) = 1
        ELSE /\ ErrorCount(last) = 0
             /\ Levels(last) = (IF last.inp.imp = "ok" THEN {"INFO"}
                                                       ELSE {"WARNING"})

\* the path the resolution order of the claim gives: the user path if it
\* exists, else the last marked script path, else the user path
ExpectedModulesPath(um, sps) ==
    IF Exists(um) THEN UserModules
    ELSE IF \E i \in 1..Len(sps) : HasUserMarker(sps[i])
    THEN sps[CHOOSE i \in 1..Len(sps) :
                /\ HasUserMarker(sps[i])
                /\ \A j \in (i + 1)..Len(sps) : ~HasUserMarker(sps[j])]
    ELSE UserModules

\* C7 as stated: if the user path exists it is returned; otherwise the last
\* marked script path, or the user path if none is marked; the returned
\* directory exists on return.
C7_AsStated ==
    last.op = "install" =>
        /\ Exists(last.pre.user_modules) =>
                /\ last.inp.makedirs = "ok"
                /\ last.inp.target = UserModules
        /\ last.inp.makedirs = "ok" =>
                /\ last.inp.target =
                     ExpectedModulesPath(last.pre.user_modules, script_paths)
                /\ DirExists(last.inp.target, user_modules)

\* C7, amended: if the user path exists as a directory it is returned; if it
\* exists and is no directory, os.makedirs raises and nothing is returned;
\* otherwise the last marked script path is resolved, or the user path if
\* none is marked; whenever a path is returned it is the resolved one and it
\* exists as a directory on return.
C7_ResolutionOrder ==
    last.op = "install" =>
        /\ last.pre.user_modules = "dir" =>
                /\ last.inp.makedirs = "ok"
                /\ last.inp.target = UserModules
        /\ last.pre.user_modules = "file" => last.inp.makedirs # "ok"
        /\ last.inp.target =
             ExpectedModulesPath(last.pre.user_modules, script_paths)
        /\ last.inp.makedirs = "ok" => DirExists(last.inp.target, user_modules)
        /\ (last.inp.makedirs = "ok" /\ last.inp.target = UserModules) =>
                user_modules = "dir"

\* the fallback among two marked script paths: the last one is returned
C7_Witness ==
    /\ Installed
    /\ last.pre.user_modules = "absent"
    /\ script_paths = <<"roaming", "xdg">>
    /\ last.inp.target = "xdg"

\* C10: once the install directory is resolved, execute returns FINISHED in
\* every outcome of the subprocess and of the import; on exit zero the
\* install directory is on sys.path afterwards, appended only if it was not
\* there before.
C10_AlwaysFinished ==
    Installed =>
        /\ last.ret = "FINISHED"
        /\ (~last.inp.run.raised /\ last.inp.run.returncode = 0) =>
                /\ last.inp.target \in Range(sys_path)
                /\ sys_path = (IF last.inp.target \in Range(last.pre.sys_path)
                               THEN last.pre.sys_path
                               ELSE Append(last.pre.sys_path, last.inp.target))
        /\ (last.inp.run.raised \/ last.inp.run.returncode # 0) =>
                sys_path = last.pre.sys_path

\* an install that exited zero with the directory already on sys.path, whose
\* import raised an exception that is no ImportError
C10_Witness ==
    /\ Installed
    /\ last.ret = "FINISHED"
    /\ last.inp.run.returncode = 0
    /\ ~last.inp.run.raised
    /\ last.inp.imp = "Exception"
    /\ last.inp.target \in Range(last.pre.sys_path)
    /\ sys_path = last.pre.sys_path

-----------------------------------------------------------------------------
(* Properties of register() and unregister().                               *)

OwnHookPresent ==
    \/ "menu_func_import" \in Range(menu_import)
    \/ "menu_func_export" \in Range(menu_export)

\* C9: across alternating register() and unregister() calls, at every step a
\* menu hook is present only while all four classes are registered; the
\* classes are registered in tuple order and unregistered in reverse, so the
\* registered ones are always a prefix of the tuple; and register() followed
\* by unregister() leaves the registered classes and both menus as they were.
C9_HooksOnlyWhileRegistered ==
    /\ OwnHookPresent => Range(classes) \subseteq Range(registered)
    /\ registered = SubSeq(classes, 1, Len(registered))
    /\ pc = Idle("registered") =>
            /\ registered = classes
            /\ "menu_func_import" \in Range(menu_import)
            /\ "menu_func_export" \in Range(menu_export)
    /\ (pc = Idle("unregistered") /\ snap.valid) =>
            /\ registered = snap.registered
            /\ menu_import = snap.menu_import
            /\ menu_export = snap.menu_export

\* unregister() under way: both hooks gone, two classes already unregistered,
\* the menus still holding another add-on's entries
C9_Witness ==
    /\ pc.at = "unregister"
    /\ ~OwnHookPresent
    /\ registered = SubSeq(classes, 1, 2)
    /\ menu_import = <<"other_menu_a">>
    /\ snap.valid

=============================================================================
